---- MODULE Spec2Model ----
(***************************************************************************)
(* Model of the iptables command execution core of the CNI helper:         *)
(*   execute, runInSandbox, mount and executeXTables                       *)
(* (package dependencies).  One caller goroutine issues a bounded number   *)
(* of calls; every sandboxed call starts one worker goroutine that is      *)
(* pinned to its own OS thread.  Mount and network namespaces are          *)
(* per-thread kernel state and are modelled explicitly.                    *)
(***************************************************************************)
EXTENDS Integers, Sequences, FiniteSets, TLC

\* ------------------------------------------------------------------ bounds
\* number of handler calls the caller issues one after the other
MaxCalls == 2
\* longest caller argument list
MaxArgs == 1

\* --------------------------------------------------------------- constants
Nil == "nil"
WaitFlag == "--wait=30"
XtablesLockPath == "/run/xtables.lock"
NsswitchPath == "/etc/nsswitch.conf"
DevNull == "/dev/null"
LockfileEnvName == "XTABLES_LOCKFILE"

\* IptablesRestoreLocking: the version where locking and -w were added
IptablesRestoreLocking == <<1, 6, 2>>
\* IptablesLockfileEnv: the version where XTABLES_LOCKFILE was added
IptablesLockfileEnv == <<1, 8, 6>>

\* utilversion (*Version).LessThan: total order on major.minor.patch
LessThan(a, b) ==
    \/ a[1] < b[1]
    \/ a[1] = b[1] /\ a[2] < b[2]
    \/ a[1] = b[1] /\ a[2] = b[2] /\ a[3] < b[3]

\* the set of mutating commands
XTablesWriteCmds == {"iptables-restore", "iptables"}

\* IptablesVersion.NoLocks: the tool predates the --wait/locking flag
NoLocks(v) == LessThan(v, IptablesRestoreLocking)

\* transformToXTablesErrorMessage: rewrites raw stderr for the log
transformToXTablesErrorMessage(stderrStr, err) ==
    [translated |-> TRUE, raw |-> stderrStr, err |-> err]

\* the untranslated stderr text handed to log.Errorf
RawLogText(stderrStr) == [translated |-> FALSE, raw |-> stderrStr, err |-> Nil]

\* ------------------------------------------------------------ input domains
Versions == {<<1, 4, 21>>, <<1, 6, 1>>, <<1, 6, 2>>, <<1, 8, 5>>, <<1, 8, 6>>, <<1, 10, 0>>}
Cmds == {"iptables-restore", "iptables-save"}
\* r.NetworkNamespace: the path of the pod's network namespace
NetNSPaths == {"/var/run/netns/pod"}
ArgAlphabet == {"-t", WaitFlag}
RECURSIVE SeqsUpTo(_, _)
SeqsUpTo(S, n) ==
    IF n = 0 THEN {<<>>}
    ELSE LET shorter == SeqsUpTo(S, n - 1)
         IN shorter \cup {Append(s, x) : s \in {t \in shorter : Len(t) = n - 1}, x \in S}
ArgLists == SeqsUpTo(ArgAlphabet, MaxArgs)

\* what one run of the external command can produce: its error and its stderr
CmdErrors == {Nil, "exit status 1", "exit status 4"}
CmdOutcomes ==
    { [err |-> Nil, stderr |-> ""],
      [err |-> Nil, stderr |-> "warning"],
      [err |-> "exit status 1", stderr |-> "Permission denied"],
      [err |-> "exit status 4", stderr |-> ""] }

\* errors built by runInSandbox
ErrGetNS == "failed to get current namespace"
ErrUnshare == "failed to unshare to new mount namespace"
ErrSetNS == "failed to reset network namespace"
ErrRemount == "failed to remount /"
ErrMountLock == "bind mount of lockFile failed"
ErrMountNss == "bind mount to /etc/nsswitch.conf failed"
SetupErrors == {ErrUnshare, ErrSetNS, ErrRemount, ErrMountLock, ErrMountNss}

\* viper keys are lower-case; a key is a sequence of characters
ViperKeys == {<<"a", "-", "b">>, <<"a", ".", "b">>}
NilValue == [kind |-> "nil", s |-> ""]
StrValue(s) == [kind |-> "string", s |-> s]
ViperValues == {NilValue, StrValue(""), StrValue("x")}
ViperEntries == {[k |-> k, v |-> v] : k \in ViperKeys, v \in ViperValues}
\* the stores tried: empty, or both keys, each with a nil, empty or non-empty value
ViperConfigs ==
    {<<>>} \cup {<<e, f>> : e \in {x \in ViperEntries : x.k = <<"a", "-", "b">>},
                            f \in {x \in ViperEntries : x.k = <<"a", ".", "b">>}}

\* strings.ToUpper on one character
ToUpperChar(ch) == CASE ch = "a" -> "A" [] ch = "b" -> "B" [] OTHER -> ch
ToUpper(s) == [i \in 1..Len(s) |-> ToUpperChar(s[i])]
\* mutant: every separator, not only "-", becomes an underscore
ReplCharAnySeparator(ch) == IF ch \in {"-", "."} THEN "_" ELSE ch

\* strings.NewReplacer("-", "_").Replace
ReplChar(ch) == IF ch = "-" THEN "_" ELSE ch
ReplReplace(s) == [i \in 1..Len(s) |-> ReplChar(s[i])]
\* fmt.Sprintf("%s=%v", strings.ToUpper(repl.Replace(k)), v)
EnvEntry(k, v) == [name |-> ToUpper(ReplReplace(k)), value |-> v.s]
\* mutant: the loop skips empty values as well as nil ones
RECURSIVE ViperEnvSkipEmpty(_)
ViperEnvSkipEmpty(cfg) ==
    IF cfg = <<>> THEN <<>>
    ELSE LET e == cfg[1]
             rest == ViperEnvSkipEmpty(Tail(cfg))
         IN IF e.v = NilValue \/ e.v.s = "" THEN rest ELSE <<EnvEntry(e.k, e.v)>> \o rest

\* the loop over viper.AllKeys()
RECURSIVE ViperEnv(_)
ViperEnv(cfg) ==
    IF cfg = <<>> THEN <<>>
    ELSE LET e == cfg[1]
             rest == ViperEnv(Tail(cfg))
         IN IF e.v = NilValue THEN rest ELSE <<EnvEntry(e.k, e.v)>> \o rest

\* ------------------------------------------------- executeXTables: planning
\* mutant: the lock decision forgets isWriteCommand
NeedLockAnyCommand(cmd, v) == ~NoLocks(v)

\* _, isWriteCommand := XTablesWriteCmds[cmd]
\* needLock := isWriteCommand && !r.IptablesVersion.NoLocks()
NeedLock(cmd, v) == cmd \in XTablesWriteCmds /\ ~NoLocks(v)

\* mutant: the comparison is "not greater than", so 1.8.6 itself still mounts
LockByMountAtThreshold(v) == ~LessThan(IptablesLockfileEnv, v)

\* mutant: the threshold is one patch release too low, so 1.8.5 already uses the variable
LockByMountBelowThreshold(v) == LessThan(v, <<1, 8, 5>>)

\* r.IptablesVersion.version.LessThan(IptablesLockfileEnv)
LockByMount(v) == LessThan(v, IptablesLockfileEnv)

\* mutant: without a lock to work around, the CNI branch runs the command directly
CNIPlanDirectWithoutLock(cmd, args, rr) ==
    IF NeedLock(cmd, rr.IptablesVersion)
    THEN IF LockByMount(rr.IptablesVersion)
         THEN [mode |-> "without lock by mount and nss", args |-> args, env |-> <<>>,
               lockFile |-> rr.NetworkNamespace, sandbox |-> TRUE]
         ELSE [mode |-> "without lock by env and nss", args |-> args,
               env |-> <<[name |-> LockfileEnvName, value |-> rr.NetworkNamespace]>>,
               lockFile |-> "", sandbox |-> TRUE]
    ELSE [mode |-> "without nss", args |-> args, env |-> <<>>,
          lockFile |-> "", sandbox |-> FALSE]

\* the CNI branch: c, lockFile, mode, and run = runInSandbox(lockFile, c.Run)
CNIPlan(cmd, args, rr) ==
    IF NeedLock(cmd, rr.IptablesVersion)
    THEN IF LockByMount(rr.IptablesVersion)
         THEN [mode |-> "without lock by mount and nss", args |-> args, env |-> <<>>,
               lockFile |-> rr.NetworkNamespace, sandbox |-> TRUE]
         ELSE [mode |-> "without lock by env and nss", args |-> args,
               env |-> <<[name |-> LockfileEnvName, value |-> rr.NetworkNamespace]>>,
               lockFile |-> "", sandbox |-> TRUE]
    ELSE [mode |-> "without nss", args |-> args, env |-> <<>>,
          lockFile |-> "", sandbox |-> TRUE]

\* mutant: the host branch never appends the wait flag
HostPlanNoWait(cmd, args, rr) ==
    [mode |-> IF NeedLock(cmd, rr.IptablesVersion) THEN "with wait lock" ELSE "without lock",
     args |-> args, env |-> <<>>, lockFile |-> "", sandbox |-> FALSE]

\* the host branch: args = append(args, "--wait=30") when the lock is wanted
HostPlan(cmd, args, rr) ==
    IF NeedLock(cmd, rr.IptablesVersion)
    THEN [mode |-> "with wait lock", args |-> Append(args, WaitFlag), env |-> <<>>,
          lockFile |-> "", sandbox |-> FALSE]
    ELSE [mode |-> "without lock", args |-> args, env |-> <<>>,
          lockFile |-> "", sandbox |-> FALSE]

\* mutant: the wait flag is appended in both modes, on top of the CNI workaround
XTablesPlanWaitInBothModes(cmd, args, rr) ==
    LET p == IF rr.CNIMode THEN CNIPlan(cmd, args, rr) ELSE HostPlan(cmd, args, rr)
    IN IF rr.CNIMode /\ NeedLock(cmd, rr.IptablesVersion)
       THEN [p EXCEPT !.args = Append(args, WaitFlag)]
       ELSE p

\* if r.CNIMode { ... } else { ... }
XTablesPlan(cmd, args, rr) ==
    IF rr.CNIMode THEN CNIPlan(cmd, args, rr) ELSE HostPlan(cmd, args, rr)

\* ------------------------------------------------------------ kernel state
Caller == 0
Workers == 1..MaxCalls
Threads == {Caller} \cup Workers
HostNS == 0
MntNamespaces == {HostNS} \cup Workers
NetNamespaces == {"hostnet", "podnet"}
NoMounts == [p \in {XtablesLockPath, NsswitchPath} |-> ""]
\* a thread the runtime starts is in the namespaces the process started in
FreshThread == [alive |-> TRUE, mnt |-> HostNS, net |-> "hostnet", pinned |-> FALSE]
\* mutant: the goroutine is not wired to its thread
UnpinnedThread == FreshThread

\* runtime.LockOSThread(): the thread serves this goroutine only, until it exits
PinnedThread == [FreshThread EXCEPT !.pinned = TRUE]
DeadThread == [alive |-> FALSE, mnt |-> HostNS, net |-> "hostnet", pinned |-> FALSE]
EmptyNS == [mounts |-> NoMounts, private |-> FALSE]

VARIABLES
    r,          \* the RealDependencies receiver: CNIMode, NetworkNamespace, IptablesVersion
    thr,        \* per OS thread: alive, mount namespace, network namespace
    mnt,        \* per mount namespace: what is mounted at the two paths, propagation
    calls,      \* number of handler calls started
    pc,         \* position of the caller goroutine
    in,         \* the arguments of the running call, and the viper store it reads
    externalCommand, \* execute: the exec.Cmd (args, Env)
    c,          \* executeXTables: the exec.Cmd (args, Env)
    plan,       \* executeXTables: mode, lockFile, and whether run is the sandbox
    n,          \* runInSandbox: the captured network namespace
    chErr,      \* runInSandbox: the result channel, capacity 1
    executed,   \* runInSandbox: the shared flag
    wpc,        \* per worker: position of the worker goroutine
    wres,       \* per worker: the value the closure is about to send
    sbErr,      \* runInSandbox: err := <-chErr
    out,        \* the outcome of c.Run(): error and captured stderr
    err,        \* the handler's err
    ret,        \* what the handler returned
    runs,       \* the command executions of the running call
    warned,     \* log.Warnf lines of the running call
    errLog,     \* log.Errorf lines of the running call
    setup,      \* runInSandbox: the setup steps attempted by the running call's worker
    sent,       \* runInSandbox: number of sends on chErr in the running call
    received,   \* runInSandbox: number of receives from chErr in the running call
    vpc,        \* injectorFromCluster: position
    revision,   \* injectorFromCluster: the revision parameter (the loop assigns to it)
    hooks,      \* injectorFromCluster: hooks.Items, each with its istio.io/rev label
    vloop,      \* injectorFromCluster: i, revCount and hookmatch
    vret        \* injectorFromCluster: the returned hook and error

vars == <<r, thr, mnt, calls, pc, in, externalCommand, c, plan, n, chErr, executed,
          wpc, wres, sbErr, out, err, ret, runs, warned, errLog, setup, sent, received,
          vpc, revision, hooks, vloop, vret>>

\* the state of injectorFromCluster
verifierVars == <<vpc, revision, hooks, vloop, vret>>

NoCall == [handler |-> "none", cmd |-> "", ignoreErrors |-> FALSE, args |-> <<>>,
           viper |-> <<>>]
NoCmd == [args |-> <<>>, env |-> <<>>]
NoPlan == [mode |-> "", args |-> <<>>, env |-> <<>>, lockFile |-> "", sandbox |-> FALSE]
NoOutcome == [err |-> Nil, stderr |-> ""]
NotReturned == "not returned"
NoHook == 0
NoLoop == [i |-> 1, revCount |-> 0, hookmatch |-> NoHook, requested |-> ""]
NoResult == [hook |-> NoHook, err |-> NotReturned, named |-> ""]
NoNS == "none"

Init ==
    /\ r \in [CNIMode : BOOLEAN, NetworkNamespace : NetNSPaths, IptablesVersion : Versions]
    /\ thr = [t \in Threads |->
                IF t = Caller
                THEN [alive |-> TRUE, mnt |-> HostNS,
                      net |-> IF r.CNIMode THEN "podnet" ELSE "hostnet",
                      pinned |-> FALSE]
                ELSE DeadThread]
    /\ mnt = [m \in MntNamespaces |-> EmptyNS]
    /\ calls = 0
    /\ pc = "idle"
    /\ in = NoCall
    /\ externalCommand = NoCmd
    /\ c = NoCmd
    /\ plan = NoPlan
    /\ n = NoNS
    /\ chErr = <<>>
    /\ executed = FALSE
    /\ wpc = [w \in Workers |-> "unborn"]
    /\ wres = [w \in Workers |-> Nil]
    /\ sbErr = Nil
    /\ out = NoOutcome
    /\ err = Nil
    /\ ret = NotReturned
    /\ runs = <<>>
    /\ warned = <<>>
    /\ errLog = <<>>
    /\ setup = <<>>
    /\ sent = 0
    /\ received = 0
    /\ vpc = "idle"
    /\ revision = ""
    /\ hooks = <<>>
    /\ vloop = NoLoop
    /\ vret = NoResult

\* what a process started on thread t sees
View(t) ==
    [lock |-> mnt[thr[t].mnt].mounts[XtablesLockPath],
     nss |-> mnt[thr[t].mnt].mounts[NsswitchPath],
     mntns |-> thr[t].mnt,
     net |-> thr[t].net]

\* c.Run() on thread t with outcome o: the child inherits the thread's namespaces
RunRecord(t, command, o) ==
    [thread |-> t, cmd |-> in.cmd, args |-> command.args, env |-> command.env,
     view |-> View(t), err |-> o.err]

\* unix.Unshare(CLONE_NEWNS) on thread t: a copy of the mount table, same propagation
Unshared(t, new) == [mnt EXCEPT ![new] = mnt[thr[t].mnt]]

\* a bind mount made in namespace m reaches namespace x when it is x itself or both
\* are still in the same shared peer group
Reaches(m, x) ==
    \/ x = m
    \/ /\ ~mnt[m].private /\ ~mnt[x].private
       /\ \E t \in Threads : thr[t].alive /\ thr[t].mnt = x

\* syscall.Mount(src, dst, "", MS_BIND|MS_RDONLY, "") on thread t
mount(t, src, dst) ==
    [x \in MntNamespaces |->
        IF Reaches(thr[t].mnt, x)
        THEN [mnt[x] EXCEPT !.mounts[dst] = src]
        ELSE mnt[x]]

\* mutant: the remount leaves / shared with the namespace it was copied from
RemountLeavesShared(t) == mnt

\* unix.Mount("", "/", "", MS_PRIVATE|MS_REC, "") on thread t
RemountedPrivate(t) == [mnt EXCEPT ![thr[t].mnt].private = TRUE]

\* --------------------------------------------------------------- execute
\* execute(cmd, ignoreErrors, stdin, args...): build the command and its environment
CallExecute ==
    /\ pc = "idle" /\ calls < MaxCalls
    /\ \E cmd \in Cmds, ignoreErrors \in BOOLEAN, args \in ArgLists, cfg \in ViperConfigs :
         /\ in' = [handler |-> "execute", cmd |-> cmd, ignoreErrors |-> ignoreErrors,
                   args |-> args, viper |-> cfg]
         /\ externalCommand' = [args |-> args, env |-> ViperEnv(cfg)]
    /\ calls' = calls + 1
    /\ pc' = "ex_run"
    /\ UNCHANGED verifierVars
    /\ UNCHANGED <<setup, sent, received>>
    /\ UNCHANGED <<r, thr, mnt, c, plan, n, chErr, executed, wpc, wres, sbErr, out, err,
                   ret, runs, warned, errLog>>

\* err := externalCommand.Run()
ExecuteRun ==
    /\ pc = "ex_run"
    /\ \E o \in CmdOutcomes :
         /\ runs' = Append(runs, RunRecord(Caller, externalCommand, o))
         /\ out' = o
         /\ err' = o.err
    /\ pc' = "ex_log"
    /\ UNCHANGED verifierVars
    /\ UNCHANGED <<setup, sent, received>>
    /\ UNCHANGED <<r, thr, mnt, calls, in, externalCommand, c, plan, n, chErr, executed,
                   wpc, wres, sbErr, ret, warned, errLog>>

\* the value execute returns
ExecuteReturn(e, ignoreErrors) == e

\* log stderr unless ignoreErrors; return err
ExecuteLog ==
    /\ pc = "ex_log"
    /\ errLog' = IF ~in.ignoreErrors /\ out.stderr # ""
                 THEN Append(errLog, RawLogText(out.stderr))
                 ELSE errLog
    /\ ret' = ExecuteReturn(err, in.ignoreErrors)
    /\ pc' = "done"
    /\ UNCHANGED verifierVars
    /\ UNCHANGED <<setup, sent, received>>
    /\ UNCHANGED <<r, thr, mnt, calls, in, externalCommand, c, plan, n, chErr, executed,
                   wpc, wres, sbErr, out, err, runs, warned>>

\* --------------------------------------------------------- executeXTables
\* executeXTables(cmd, ignoreErrors, stdin, args...): choose the mode, build c and run
CallExecuteXTables ==
    /\ pc = "idle" /\ calls < MaxCalls
    /\ \E cmd \in Cmds, ignoreErrors \in BOOLEAN, args \in ArgLists :
         /\ in' = [handler |-> "executeXTables", cmd |-> cmd,
                   ignoreErrors |-> ignoreErrors, args |-> args, viper |-> <<>>]
         /\ plan' = XTablesPlan(cmd, args, r)
    /\ c' = [args |-> plan'.args, env |-> plan'.env]
    /\ calls' = calls + 1
    /\ pc' = IF plan'.sandbox THEN "sb_getns" ELSE "xt_run"
    /\ UNCHANGED verifierVars
    /\ UNCHANGED <<setup, sent, received>>
    /\ UNCHANGED <<r, thr, mnt, externalCommand, n, chErr, executed, wpc, wres, sbErr,
                   out, err, ret, runs, warned, errLog>>

\* host mode: run = c.Run(), on the caller
RunDirect ==
    /\ pc = "xt_run"
    /\ \E o \in CmdOutcomes :
         /\ runs' = Append(runs, RunRecord(Caller, c, o))
         /\ out' = o
         /\ err' = o.err
    /\ pc' = "xt_log"
    /\ UNCHANGED verifierVars
    /\ UNCHANGED <<setup, sent, received>>
    /\ UNCHANGED <<r, thr, mnt, calls, in, externalCommand, c, plan, n, chErr, executed,
                   wpc, wres, sbErr, ret, warned, errLog>>

\* ------------------------------------------------------------ runInSandbox
\* mutant: a failed capture is treated like a failed setup step and falls back
GetNSFailedFallsBack == [pc |-> "sb_fallback", err |-> Nil]

\* what runInSandbox does when netns.GetCurrentNS() fails
GetNSFailed == [pc |-> "xt_log", err |-> ErrGetNS]

\* chErr := make(chan error, 1); n, nerr := netns.GetCurrentNS()
GetCurrentNS ==
    /\ pc = "sb_getns"
    /\ chErr' = <<>>
    /\ \/ /\ n' = thr[Caller].net
          /\ pc' = "sb_go"
          /\ UNCHANGED err
       \/ /\ pc' = GetNSFailed.pc
          /\ err' = GetNSFailed.err
          /\ UNCHANGED n
    /\ UNCHANGED verifierVars
    /\ UNCHANGED <<setup, sent, received>>
    /\ UNCHANGED <<r, thr, mnt, calls, in, externalCommand, c, plan, executed, wpc, wres,
                   sbErr, out, ret, runs, warned, errLog>>

\* executed := false; go func() { chErr <- func() error {...}() }()
GoWorker ==
    /\ pc = "sb_go"
    /\ executed' = FALSE
    /\ wpc' = [wpc EXCEPT ![calls] = "lockthread"]
    /\ pc' = "sb_recv"
    /\ UNCHANGED verifierVars
    /\ UNCHANGED <<setup, sent, received>>
    /\ UNCHANGED <<r, thr, mnt, calls, in, externalCommand, c, plan, n, chErr, wres, sbErr,
                   out, err, ret, runs, warned, errLog>>

\* mutant: no goroutine of its own, the setup runs on the caller's thread
WorkerThreadIsCaller(w) == Caller

\* the OS thread the namespace and mount calls of worker w are made on
WorkerThread(w) == w

\* runtime.LockOSThread(): the goroutine owns a thread of its own from here on
LockOSThread(w) ==
    /\ wpc[w] = "lockthread"
    /\ thr' = [thr EXCEPT ![w] = PinnedThread]
    /\ wpc' = [wpc EXCEPT ![w] = "unshare"]
    /\ UNCHANGED verifierVars
    /\ UNCHANGED <<setup, sent, received>>
    /\ UNCHANGED <<r, mnt, calls, pc, in, externalCommand, c, plan, n, chErr, executed,
                   wres, sbErr, out, err, ret, runs, warned, errLog>>

\* mutant: on a setup error the goroutine ends without sending anything
SetupFailsWithoutSend(w, step, e) ==
    /\ setup' = Append(setup, [step |-> step, err |-> e])
    /\ wres' = [wres EXCEPT ![w] = e]
    /\ wpc' = [wpc EXCEPT ![w] = "exit"]

\* a setup step failed: setupSandbox returns the error, the closure returns it
SetupFails(w, step, e) ==
    /\ setup' = Append(setup, [step |-> step, err |-> e])
    /\ wres' = [wres EXCEPT ![w] = e]
    /\ wpc' = [wpc EXCEPT ![w] = "send"]

\* unix.Unshare(unix.CLONE_NEWNS)
Unshare(w) ==
    /\ wpc[w] = "unshare"
    /\ \/ /\ setup' = Append(setup, [step |-> "unshare", err |-> Nil])
          /\ mnt' = Unshared(WorkerThread(w), w)
          /\ thr' = [thr EXCEPT ![WorkerThread(w)].mnt = w]
          /\ wpc' = [wpc EXCEPT ![w] = "setns"]
          /\ UNCHANGED wres
       \/ /\ SetupFails(w, "unshare", ErrUnshare)
          /\ UNCHANGED <<thr, mnt>>
    /\ UNCHANGED verifierVars
    /\ UNCHANGED <<sent, received>>
    /\ UNCHANGED <<r, calls, pc, in, externalCommand, c, plan, n, chErr, executed, sbErr,
                   out, err, ret, runs, warned, errLog>>

\* mutant: the thread stays in the network namespace it started in
NsSetKeepsThreadNetwork(ns, t) == thr

\* netns.NsHandle.Set: the calling thread t enters the namespace the handle names
NsSet(ns, t) == [thr EXCEPT ![t].net = ns]

\* n.Set()
SetNS(w) ==
    /\ wpc[w] = "setns"
    /\ \/ /\ setup' = Append(setup, [step |-> "setns", err |-> Nil])
          /\ thr' = NsSet(n, WorkerThread(w))
          /\ wpc' = [wpc EXCEPT ![w] = "remount"]
          /\ UNCHANGED wres
       \/ /\ SetupFails(w, "setns", ErrSetNS)
          /\ UNCHANGED thr
    /\ UNCHANGED verifierVars
    /\ UNCHANGED <<sent, received>>
    /\ UNCHANGED <<r, mnt, calls, pc, in, externalCommand, c, plan, n, chErr, executed,
                   sbErr, out, err, ret, runs, warned, errLog>>

\* mutant: the lock-file mount is skipped whatever the override
AfterRemountSkipsLockMount(lockFile) == "mountnss"

\* if lockFile != "" { mount(lockFile, "/run/xtables.lock") }
AfterRemount(lockFile) == IF lockFile # "" THEN "mountlock" ELSE "mountnss"

\* unix.Mount("", "/", "", unix.MS_PRIVATE|unix.MS_REC, "")
RemountPrivate(w) ==
    /\ wpc[w] = "remount"
    /\ \/ /\ setup' = Append(setup, [step |-> "remount", err |-> Nil])
          /\ mnt' = RemountedPrivate(WorkerThread(w))
          /\ wpc' = [wpc EXCEPT ![w] = AfterRemount(plan.lockFile)]
          /\ UNCHANGED wres
       \/ /\ SetupFails(w, "remount", ErrRemount)
          /\ UNCHANGED mnt
    /\ UNCHANGED verifierVars
    /\ UNCHANGED <<sent, received>>
    /\ UNCHANGED <<r, thr, calls, pc, in, externalCommand, c, plan, n, chErr, executed,
                   sbErr, out, err, ret, runs, warned, errLog>>

\* mount(lockFile, "/run/xtables.lock")
MountLockFile(w) ==
    /\ wpc[w] = "mountlock"
    /\ \/ /\ setup' = Append(setup, [step |-> "mountlock", err |-> Nil])
          /\ mnt' = mount(WorkerThread(w), plan.lockFile, XtablesLockPath)
          /\ wpc' = [wpc EXCEPT ![w] = "mountnss"]
          /\ UNCHANGED wres
       \/ /\ SetupFails(w, "mountlock", ErrMountLock)
          /\ UNCHANGED mnt
    /\ UNCHANGED verifierVars
    /\ UNCHANGED <<sent, received>>
    /\ UNCHANGED <<r, thr, calls, pc, in, externalCommand, c, plan, n, chErr, executed,
                   sbErr, out, err, ret, runs, warned, errLog>>

\* mutant: the closure goes straight to f() and leaves executed false
AfterSetupSkipsMark == "f"

\* setupSandbox returned nil: the closure continues at executed = true
AfterSetup == "mark"

\* mount("/dev/null", "/etc/nsswitch.conf")
MountNsswitch(w) ==
    /\ wpc[w] = "mountnss"
    /\ \/ /\ setup' = Append(setup, [step |-> "mountnss", err |-> Nil])
          /\ mnt' = mount(WorkerThread(w), DevNull, NsswitchPath)
          /\ wpc' = [wpc EXCEPT ![w] = AfterSetup]
          /\ UNCHANGED wres
       \/ /\ SetupFails(w, "mountnss", ErrMountNss)
          /\ UNCHANGED mnt
    /\ UNCHANGED verifierVars
    /\ UNCHANGED <<sent, received>>
    /\ UNCHANGED <<r, thr, calls, pc, in, externalCommand, c, plan, n, chErr, executed,
                   sbErr, out, err, ret, runs, warned, errLog>>

\* executed = true
MarkExecuted(w) ==
    /\ wpc[w] = "mark"
    /\ executed' = TRUE
    /\ wpc' = [wpc EXCEPT ![w] = "f"]
    /\ UNCHANGED verifierVars
    /\ UNCHANGED <<setup, sent, received>>
    /\ UNCHANGED <<r, thr, mnt, calls, pc, in, externalCommand, c, plan, n, chErr, wres,
                   sbErr, out, err, ret, runs, warned, errLog>>

\* return f(), on the worker: f is c.Run()
WorkerRunF(w) ==
    /\ wpc[w] = "f"
    /\ \E o \in CmdOutcomes :
         /\ runs' = Append(runs, RunRecord(WorkerThread(w), c, o))
         /\ out' = o
         /\ wres' = [wres EXCEPT ![w] = o.err]
    /\ wpc' = [wpc EXCEPT ![w] = "send"]
    /\ UNCHANGED verifierVars
    /\ UNCHANGED <<setup, sent, received>>
    /\ UNCHANGED <<r, thr, mnt, calls, pc, in, externalCommand, c, plan, n, chErr, executed,
                   sbErr, err, ret, warned, errLog>>

\* mutant: the goroutine sends its result again
AfterSendSendsAgain == "send"

\* the send was the goroutine's last statement: it ends
AfterSend == "exit"

\* chErr <- result
SendResult(w) ==
    /\ wpc[w] = "send"
    /\ Len(chErr) < 1
    /\ chErr' = Append(chErr, wres[w])
    /\ wres' = [wres EXCEPT ![w] = Nil]
    /\ wpc' = [wpc EXCEPT ![w] = AfterSend]
    /\ UNCHANGED verifierVars
    /\ sent' = sent + 1
    /\ UNCHANGED <<setup, received>>
    /\ UNCHANGED <<r, thr, mnt, calls, pc, in, externalCommand, c, plan, n, executed,
                   sbErr, out, err, ret, runs, warned, errLog>>

\* the goroutine ends without UnlockOSThread: the runtime kills its thread, and the
\* mount namespace goes with its last thread
WorkerExit(w) ==
    /\ wpc[w] = "exit"
    /\ thr' = [thr EXCEPT ![w] = DeadThread]
    /\ mnt' = IF \E t \in Threads \ {w} : thr[t].alive /\ thr[t].mnt = w
              THEN mnt
              ELSE [mnt EXCEPT ![w] = EmptyNS]
    /\ wpc' = [wpc EXCEPT ![w] = "dead"]
    /\ UNCHANGED verifierVars
    /\ UNCHANGED <<setup, sent, received>>
    /\ UNCHANGED <<r, calls, pc, in, externalCommand, c, plan, n, chErr, executed, wres,
                   sbErr, out, err, ret, runs, warned, errLog>>

\* err := <-chErr
RecvResult ==
    /\ pc = "sb_recv"
    /\ chErr # <<>>
    /\ sbErr' = Head(chErr)
    /\ chErr' = Tail(chErr)
    /\ pc' = "sb_check"
    /\ UNCHANGED verifierVars
    /\ received' = received + 1
    /\ UNCHANGED <<setup, sent>>
    /\ UNCHANGED <<r, thr, mnt, calls, in, externalCommand, c, plan, n, executed, wpc, wres,
                   out, err, ret, runs, warned, errLog>>

\* mutant: never fall back, a setup error is returned as it is
NeedFallbackNever(e, ex) == FALSE

\* mutant: every error falls back, the executed flag is not consulted
NeedFallbackOnAnyError(e, ex) == e # Nil

\* if err != nil && !executed
NeedFallback(e, ex) == e # Nil /\ ~ex

\* the branch after the receive: warn and fall back, or return err
CheckResult ==
    /\ pc = "sb_check"
    /\ IF NeedFallback(sbErr, executed)
       THEN /\ warned' = Append(warned, sbErr)
            /\ pc' = "sb_fallback"
            /\ UNCHANGED err
       ELSE /\ err' = sbErr
            /\ pc' = "xt_log"
            /\ UNCHANGED warned
    /\ UNCHANGED verifierVars
    /\ UNCHANGED <<setup, sent, received>>
    /\ UNCHANGED <<r, thr, mnt, calls, in, externalCommand, c, plan, n, chErr, executed,
                   wpc, wres, sbErr, out, ret, runs, errLog>>

\* return f(), on the caller
FallbackRunF ==
    /\ pc = "sb_fallback"
    /\ \E o \in CmdOutcomes :
         /\ runs' = Append(runs, RunRecord(Caller, c, o))
         /\ out' = o
         /\ err' = o.err
    /\ pc' = "xt_log"
    /\ UNCHANGED verifierVars
    /\ UNCHANGED <<setup, sent, received>>
    /\ UNCHANGED <<r, thr, mnt, calls, in, externalCommand, c, plan, n, chErr, executed,
                   wpc, wres, sbErr, ret, warned, errLog>>

\* mutant: ignoreErrors swallows the returned error as well
XTablesReturnIgnoring(e, ignoreErrors) == IF ignoreErrors THEN Nil ELSE e

\* the value executeXTables returns
XTablesReturn(e, ignoreErrors) == e

\* mutant: whatever is logged goes through the translator
XTablesLogTextAlwaysTranslated(stderrStr, e) == transformToXTablesErrorMessage(stderrStr, e)

\* stderrStr := stderr.String(); if err != nil { stderrStr = transform...(stderrStr, err) }
XTablesLogText(stderrStr, e) ==
    IF e # Nil THEN transformToXTablesErrorMessage(stderrStr, e) ELSE RawLogText(stderrStr)

\* log the (translated) stderr unless ignoreErrors; return err
XTablesLog ==
    /\ pc = "xt_log"
    /\ errLog' = IF (err # Nil \/ out.stderr # "") /\ ~in.ignoreErrors
                 THEN Append(errLog, XTablesLogText(out.stderr, err))
                 ELSE errLog
    /\ ret' = XTablesReturn(err, in.ignoreErrors)
    /\ pc' = "done"
    /\ UNCHANGED verifierVars
    /\ UNCHANGED <<setup, sent, received>>
    /\ UNCHANGED <<r, thr, mnt, calls, in, externalCommand, c, plan, n, chErr, executed,
                   wpc, wres, sbErr, out, err, runs, warned>>

\* the handler has returned; the caller is free to issue the next call
Return ==
    /\ pc = "done"
    /\ pc' = "idle"
    /\ in' = NoCall
    /\ externalCommand' = NoCmd
    /\ c' = NoCmd
    /\ plan' = NoPlan
    /\ n' = NoNS
    /\ chErr' = <<>>
    /\ executed' = FALSE
    /\ sbErr' = Nil
    /\ out' = NoOutcome
    /\ err' = Nil
    /\ ret' = NotReturned
    /\ runs' = <<>>
    /\ warned' = <<>>
    /\ errLog' = <<>>
    /\ UNCHANGED verifierVars
    /\ setup' = <<>>
    /\ sent' = 0
    /\ received' = 0
    /\ UNCHANGED <<r, thr, mnt, calls, wpc, wres>>

Worker(w) ==
    \/ LockOSThread(w) \/ Unshare(w) \/ SetNS(w) \/ RemountPrivate(w)
    \/ MountLockFile(w) \/ MountNsswitch(w) \/ MarkExecuted(w) \/ WorkerRunF(w)
    \/ SendResult(w) \/ WorkerExit(w)

Next ==
    \/ CallExecute \/ ExecuteRun \/ ExecuteLog
    \/ CallExecuteXTables \/ RunDirect
    \/ GetCurrentNS \/ GoWorker \/ RecvResult \/ CheckResult \/ FallbackRunF
    \/ XTablesLog \/ Return
    \/ \E w \in Workers : Worker(w)

Spec == Init /\ [][Next]_vars

\* ---------------------------------------- runInSandbox under fair scheduling
\* bound: the calls of runInSandbox followed under fair scheduling
SandboxCalls == 1

\* runInSandbox is only called in CNI mode; the handler calls before the last
\* SandboxCalls were calls of execute, which start no worker and have returned
InitSandbox ==
    /\ r \in [CNIMode : {TRUE}, NetworkNamespace : NetNSPaths, IptablesVersion : Versions]
    /\ thr = [t \in Threads |->
                IF t = Caller
                THEN [alive |-> TRUE, mnt |-> HostNS, net |-> "podnet", pinned |-> FALSE]
                ELSE DeadThread]
    /\ mnt = [m \in MntNamespaces |-> EmptyNS]
    /\ calls = MaxCalls - SandboxCalls
    /\ pc = "idle"
    /\ in = NoCall
    /\ externalCommand = NoCmd
    /\ c = NoCmd
    /\ plan = NoPlan
    /\ n = NoNS
    /\ chErr = <<>>
    /\ executed = FALSE
    /\ wpc = [w \in Workers |-> "unborn"]
    /\ wres = [w \in Workers |-> Nil]
    /\ sbErr = Nil
    /\ out = NoOutcome
    /\ err = Nil
    /\ ret = NotReturned
    /\ runs = <<>>
    /\ warned = <<>>
    /\ errLog = <<>>
    /\ setup = <<>>
    /\ sent = 0
    /\ received = 0
    /\ vpc = "idle"
    /\ revision = ""
    /\ hooks = <<>>
    /\ vloop = NoLoop
    /\ vret = NoResult

\* the steps of the caller's goroutine inside runInSandbox
CallerInSandbox == GetCurrentNS \/ GoWorker \/ RecvResult \/ CheckResult \/ FallbackRunF

NextSandbox ==
    \/ CallExecuteXTables
    \/ GetCurrentNS \/ GoWorker \/ RecvResult \/ CheckResult \/ FallbackRunF
    \/ XTablesLog \/ Return
    \/ \E w \in Workers : Worker(w)

\* every system call and the command return, and the Go scheduler runs every
\* goroutine that can run: a step of the caller or of a worker that stays possible
\* is taken
SpecSandbox ==
    /\ InitSandbox
    /\ [][NextSandbox]_vars
    /\ WF_vars(CallerInSandbox)
    /\ \A w \in Workers : WF_vars(Worker(w))

\* ------------------------------------------- istioctl: injectorFromCluster
\* bound: MutatingWebhookConfigurations in the cluster
MaxHooks == 2
\* values of the istio.io/rev label; "" is a hook without the label
Revisions == {"", "canary", "stable"}
\* hooks.Items: each hook is represented by its istio.io/rev label
HookLists == SeqsUpTo(Revisions, MaxHooks)
ErrList == "list failed"
ErrNotFound == "Istio injector revision not found"

\* injectorFromCluster(revision): the List call and its error return
CallInjectorFromCluster ==
    /\ vpc = "idle"
    /\ \E rev \in Revisions :
         /\ revision' = rev
         /\ vloop' = [i |-> 1, revCount |-> 0, hookmatch |-> NoHook, requested |-> rev]
    /\ \/ /\ \E items \in HookLists : hooks' = items
          /\ vpc' = "loop"
          /\ vret' = NoResult
       \/ /\ hooks' = <<>>
          /\ vret' = [hook |-> NoHook, err |-> ErrList, named |-> ""]
          /\ vpc' = "done"
    /\ UNCHANGED <<r, thr, mnt, calls, pc, in, externalCommand, c, plan, n, chErr, executed,
                   wpc, wres, sbErr, out, err, ret, runs, warned, errLog, setup, sent,
                   received>>

\* one iteration of: for i, hook := range hooks.Items { ... }
InjectorLoop ==
    /\ vpc = "loop"
    /\ vloop.i <= Len(hooks)
    /\ LET rev == hooks[vloop.i]
       IN IF rev # ""
          THEN /\ revision' = rev
               /\ vloop' = [vloop EXCEPT
                              !.i = @ + 1,
                              !.revCount = @ + 1,
                              !.hookmatch = IF revision' = "" \/ revision' = rev
                                            THEN vloop.i
                                            ELSE @]
          ELSE /\ vloop' = [vloop EXCEPT !.i = @ + 1]
               /\ UNCHANGED revision
    /\ UNCHANGED <<vpc, hooks, vret>>
    /\ UNCHANGED <<r, thr, mnt, calls, pc, in, externalCommand, c, plan, n, chErr, executed,
                   wpc, wres, sbErr, out, err, ret, runs, warned, errLog, setup, sent,
                   received>>

\* after the loop: return hookmatch, or the error naming revision
InjectorReturn ==
    /\ vpc = "loop"
    /\ vloop.i > Len(hooks)
    /\ vret' = IF vloop.hookmatch # NoHook
               THEN [hook |-> vloop.hookmatch, err |-> Nil, named |-> ""]
               ELSE [hook |-> NoHook, err |-> ErrNotFound, named |-> revision]
    /\ vpc' = "done"
    /\ UNCHANGED <<revision, hooks, vloop>>
    /\ UNCHANGED <<r, thr, mnt, calls, pc, in, externalCommand, c, plan, n, chErr, executed,
                   wpc, wres, sbErr, out, err, ret, runs, warned, errLog, setup, sent,
                   received>>

\* the caller has the result; the next call starts afresh
InjectorDone ==
    /\ vpc = "done"
    /\ vpc' = "idle"
    /\ revision' = ""
    /\ hooks' = <<>>
    /\ vloop' = NoLoop
    /\ vret' = NoResult
    /\ UNCHANGED <<r, thr, mnt, calls, pc, in, externalCommand, c, plan, n, chErr, executed,
                   wpc, wres, sbErr, out, err, ret, runs, warned, errLog, setup, sent,
                   received>>

\* istioctl does not use the iptables dependencies: one fixed receiver
InitVerifier ==
    /\ Init
    /\ ~r.CNIMode
    /\ r.IptablesVersion = IptablesLockfileEnv

NextVerifier == CallInjectorFromCluster \/ InjectorLoop \/ InjectorReturn \/ InjectorDone

SpecVerifier == InitVerifier /\ [][NextVerifier]_vars

\* ------------------------------------------------------------ properties
Done == pc = "done"
InXTables == in.handler = "executeXTables"
Sandboxed == InXTables /\ plan.sandbox
\* the worker goroutine of the running call
W == calls
IsWrite == in.cmd \in XTablesWriteCmds
AtLeast(v, w) == ~LessThan(v, w)
CallerAtStart ==
    [alive |-> TRUE, mnt |-> HostNS, net |-> IF r.CNIMode THEN "podnet" ELSE "hostnet",
     pinned |-> FALSE]
LockfileEnv == [name |-> LockfileEnvName, value |-> r.NetworkNamespace]
HasEnv(env, name) == \E i \in 1..Len(env) : env[i].name = name
Count(seq, x) == Cardinality({i \in 1..Len(seq) : seq[i] = x})

\* C1: when a setup step on the worker fails (the worker reports one of the setup
\* errors), the operation has run exactly once by the time runInSandbox returns, on
\* the caller (fallback), and the value returned is that run's result, never the
\* setup error.
C1_SetupFailureFallsBack ==
    /\ Sandboxed /\ sbErr \in SetupErrors /\ pc \in {"xt_log", "done"}
         => /\ Len(runs) = 1
            /\ runs[1].thread = Caller
            /\ err = runs[1].err
            /\ err \notin SetupErrors
            /\ ~executed
    /\ Sandboxed /\ sbErr \in SetupErrors /\ Done => ret = runs[1].err
    /\ Len(runs) <= 1

C1_Witness ==
    /\ Done /\ Sandboxed /\ sbErr = ErrMountNss
    /\ Len(runs) = 1 /\ ret = "exit status 1"

\* C2: when every setup step succeeded (the worker set executed), the operation ran
\* exactly once, on the worker, the value returned is exactly what it returned, and
\* the fallback is not taken even when it returned an error.
C2_SetupSuccessReturnsInner ==
    /\ executed => pc # "sb_fallback" /\ warned = <<>>
    /\ executed /\ pc \in {"sb_check", "xt_log", "done"}
         => /\ Len(runs) = 1
            /\ runs[1].thread = W
            /\ sbErr = runs[1].err
    /\ executed /\ Done => ret = runs[1].err

C2_Witness ==
    /\ Done /\ Sandboxed /\ executed
    /\ Len(runs) = 1 /\ runs[1].thread = W /\ ret = "exit status 1"

\* C3 as claimed: when capturing the current network namespace failed, the operation
\* has still run exactly once and its result is what is returned.
C3_Original ==
    Done /\ Sandboxed /\ n = NoNS => Len(runs) = 1 /\ ret = runs[1].err

\* C3 as amended: when capturing the current network namespace fails, runInSandbox
\* returns the capture error at once: no worker is started, no warning is logged and
\* the operation is not run at all.
C3_CaptureFailureIsReturned ==
    Sandboxed /\ n = NoNS /\ pc \in {"xt_log", "done"}
        => /\ runs = <<>>
           /\ err = ErrGetNS
           /\ Done => ret = ErrGetNS
           /\ wpc[W] = "unborn"
           /\ warned = <<>>

C3_Witness ==
    Done /\ Sandboxed /\ n = NoNS /\ ret = ErrGetNS /\ runs = <<>>

\* C4: at every moment, whatever the outcome of any call, the caller's thread is in
\* the mount and network namespace it started in and nothing is mounted over
\* /run/xtables.lock or /etc/nsswitch.conf in the host mount namespace; a freshly
\* unshared sandbox holds no mount of an earlier call, and a fallback run on the
\* caller sees neither mount.
C4_CallerNamespacesUntouched ==
    /\ thr[Caller] = CallerAtStart
    /\ mnt[HostNS] = EmptyNS
    /\ \A w \in Workers :
         /\ wpc[w] \in {"unborn", "lockthread", "unshare", "dead"} => mnt[w] = EmptyNS
         /\ wpc[w] \in {"setns", "remount"} => mnt[w].mounts = NoMounts
    /\ \A i \in 1..Len(runs) :
         runs[i].thread = Caller => runs[i].view.lock = "" /\ runs[i].view.nss = ""

C4_Witness ==
    /\ calls = 2 /\ wpc[2] = "setns"
    /\ wpc[1] = "exit"
    /\ mnt[1].mounts[NsswitchPath] = DevNull
    /\ mnt[1].mounts[XtablesLockPath] # ""

\* C5: CNI mode, write command, version >= 1.8.6: the child's environment is
\* XTABLES_LOCKFILE=<NetworkNamespace>, the sandbox gets an empty lock-file override
\* (nothing is ever mounted over /run/xtables.lock), and the arguments are the
\* caller's, no --wait flag appended; every run of the command has that environment.
C5_CNILockByEnv ==
    InXTables /\ r.CNIMode /\ IsWrite /\ AtLeast(r.IptablesVersion, IptablesLockfileEnv)
        => /\ c.env = <<LockfileEnv>>
           /\ plan.sandbox /\ plan.lockFile = ""
           /\ c.args = in.args
           /\ Count(c.args, WaitFlag) = Count(in.args, WaitFlag)
           /\ mnt[W].mounts[XtablesLockPath] = ""
           /\ \A i \in 1..Len(runs) :
                /\ runs[i].env = <<LockfileEnv>>
                /\ runs[i].args = in.args
                /\ runs[i].view.lock = ""

C5_Witness ==
    /\ Done /\ InXTables /\ r.CNIMode /\ IsWrite /\ r.IptablesVersion = <<1, 8, 6>>
    /\ r.NetworkNamespace # ""
    /\ Len(runs) = 1 /\ runs[1].thread = W
    /\ HasEnv(runs[1].env, LockfileEnvName)

\* C6: CNI mode, write command, 1.6.2 <= version < 1.8.6: the sandbox gets the pod
\* NetworkNamespace as lock-file override, no XTABLES_LOCKFILE is set, and a command
\* run inside the sandbox sees that file mounted over /run/xtables.lock.
C6_CNILockByMount ==
    InXTables /\ r.CNIMode /\ IsWrite
      /\ AtLeast(r.IptablesVersion, IptablesRestoreLocking)
      /\ LessThan(r.IptablesVersion, IptablesLockfileEnv)
        => /\ plan.sandbox /\ plan.lockFile = r.NetworkNamespace
           /\ ~HasEnv(c.env, LockfileEnvName)
           /\ \A i \in 1..Len(runs) :
                /\ ~HasEnv(runs[i].env, LockfileEnvName)
                /\ runs[i].thread = W => runs[i].view.lock = r.NetworkNamespace

C6_Witness ==
    /\ Done /\ InXTables /\ r.CNIMode /\ IsWrite /\ r.IptablesVersion = <<1, 8, 5>>
    /\ Len(runs) = 1 /\ runs[1].thread = W
    /\ runs[1].view.lock = "/var/run/netns/pod"

\* C7: host mode: the command runs directly on the caller, no sandbox and no worker,
\* and the executed arguments are the caller's followed by one --wait=30 exactly when
\* the command is a write command and the version is >= 1.6.2, else the caller's.
C7_HostModeWait ==
    InXTables /\ ~r.CNIMode
        => /\ ~plan.sandbox
           /\ wpc[W] = "unborn"
           /\ pc \notin {"sb_getns", "sb_go", "sb_recv", "sb_check", "sb_fallback"}
           /\ c.args = IF IsWrite /\ AtLeast(r.IptablesVersion, IptablesRestoreLocking)
                       THEN Append(in.args, WaitFlag)
                       ELSE in.args
           /\ \A i \in 1..Len(runs) : runs[i].thread = Caller /\ runs[i].args = c.args
           /\ Done => Len(runs) = 1

C7_Witness ==
    /\ Done /\ InXTables /\ ~r.CNIMode /\ IsWrite /\ r.IptablesVersion = <<1, 6, 2>>
    /\ in.args = <<"-t">>
    /\ Len(runs) = 1 /\ runs[1].args = <<"-t", WaitFlag>>

\* C8: a command outside the write-command set gets no lock logic, for every version
\* and in both modes: arguments unchanged, no XTABLES_LOCKFILE, empty lock-file
\* override, nothing mounted over /run/xtables.lock.
C8_ReadOnlyNoLockLogic ==
    InXTables /\ ~IsWrite
        => /\ c.args = in.args
           /\ ~HasEnv(c.env, LockfileEnvName)
           /\ plan.lockFile = ""
           /\ mnt[W].mounts[XtablesLockPath] = ""
           /\ \A i \in 1..Len(runs) :
                /\ runs[i].args = in.args
                /\ ~HasEnv(runs[i].env, LockfileEnvName)
                /\ runs[i].view.lock = ""

C8_Witness ==
    /\ Done /\ InXTables /\ ~IsWrite /\ r.CNIMode /\ r.IptablesVersion = <<1, 8, 5>>
    /\ Len(runs) = 1 /\ runs[1].thread = W

\* C9: CNI mode without a lock to handle (read-only command, or version < 1.6.2): the
\* command still goes through the sandbox, with an empty lock-file override, and a
\* run inside the sandbox has /dev/null mounted over /etc/nsswitch.conf.
C9_CNINoLockStillSandboxed ==
    InXTables /\ r.CNIMode
      /\ (~IsWrite \/ LessThan(r.IptablesVersion, IptablesRestoreLocking))
        => /\ plan.sandbox /\ plan.lockFile = ""
           /\ pc # "xt_run"
           /\ \A i \in 1..Len(runs) :
                runs[i].thread = W
                    => runs[i].view.nss = DevNull /\ runs[i].view.lock = ""
           /\ Done /\ sbErr = Nil /\ n # NoNS
                => Len(runs) = 1 /\ runs[1].thread = W

C9_Witness ==
    /\ Done /\ InXTables /\ r.CNIMode /\ IsWrite /\ r.IptablesVersion = <<1, 6, 1>>
    /\ Len(runs) = 1 /\ runs[1].thread = W /\ runs[1].view.nss = DevNull

\* the error run(c) produced: the error of the command's (single) run, or, when the
\* command was never started, the error runInSandbox gave instead
RunError == IF runs = <<>> THEN ErrGetNS ELSE runs[Len(runs)].err

\* C10: what execute and executeXTables return is the untranslated error of running
\* the command, the same whatever ignoreErrors is: it is fixed by the run alone;
\* ignoreErrors and the translation only decide what is logged.
C10_ReturnIndependentOfIgnoreErrors ==
    /\ Done => ret = RunError
    /\ Done /\ in.handler = "execute" => Len(runs) = 1 /\ ret = runs[1].err
    /\ Done /\ InXTables /\ ~plan.sandbox => Len(runs) = 1 /\ ret = runs[1].err
    /\ in.ignoreErrors => errLog = <<>>
    /\ ret \in CmdErrors \cup {ErrGetNS, NotReturned}

C10_Witness ==
    /\ Done /\ InXTables /\ in.ignoreErrors
    /\ ret = "exit status 1" /\ out.stderr # "" /\ errLog = <<>>

\* C11 as claimed: with ignoreErrors false, whenever the command failed or its stderr
\* is not empty, what is logged is the stderr after translation.
C11_Original ==
    Done /\ InXTables /\ ~in.ignoreErrors /\ (err # Nil \/ out.stderr # "")
        => Len(errLog) = 1 /\ errLog[1].translated

\* C11 as amended: with ignoreErrors false, the stderr is passed through the
\* translator before it is logged exactly when the command failed (err != nil); when
\* the command succeeded but wrote to stderr, the raw stderr is logged untranslated;
\* when it succeeded silently nothing is logged.
C11_TranslatedOnlyOnFailure ==
    Done /\ InXTables /\ ~in.ignoreErrors
        => /\ err # Nil
                => errLog = <<transformToXTablesErrorMessage(out.stderr, err)>>
           /\ err = Nil /\ out.stderr # "" => errLog = <<RawLogText(out.stderr)>>
           /\ err = Nil /\ out.stderr = "" => errLog = <<>>

C11_Witness ==
    /\ Done /\ InXTables /\ ~in.ignoreErrors
    /\ err = Nil /\ out.stderr = "warning"
    /\ Len(errLog) = 1 /\ ~errLog[1].translated /\ errLog[1].raw = "warning"

InExecute == in.handler = "execute"
UpperAlnumOrUnderscore == {"A", "B", "_"}
\* the keys of the store whose value is not nil, in AllKeys order
NonNil(cfg) == SelectSeq(cfg, LAMBDA e : e.v # NilValue)

\* C12 as claimed: every injected variable name consists only of upper-case
\* alphanumerics and underscores.
C12_Original ==
    InExecute => \A i \in 1..Len(externalCommand.env) :
                    \A j \in 1..Len(externalCommand.env[i].name) :
                        externalCommand.env[i].name[j] \in UpperAlnumOrUnderscore

\* C12 as amended: a key becomes a variable name by replacing every "-" by "_" and
\* upper-casing; every other character, "." included, is kept as it is, so a name
\* may hold characters that are neither alphanumeric nor underscore.
C12_OnlyDashReplaced ==
    InExecute =>
        /\ Len(externalCommand.env) = Len(NonNil(in.viper))
        /\ \A i \in 1..Len(externalCommand.env) :
             LET name == externalCommand.env[i].name
                 key == NonNil(in.viper)[i].k
             IN /\ Len(name) = Len(key)
                /\ \A j \in 1..Len(key) :
                     /\ key[j] = "-" => name[j] = "_"
                     /\ key[j] = "." => name[j] = "."
                     /\ key[j] = "a" => name[j] = "A"
                     /\ key[j] = "b" => name[j] = "B"

C12_Witness ==
    /\ Done /\ InExecute
    /\ Len(externalCommand.env) = 2
    /\ externalCommand.env[1].name = <<"A", "_", "B">>
    /\ externalCommand.env[2].name = <<"A", ".", "B">>
    /\ Len(runs) = 1 /\ runs[1].env = externalCommand.env

\* C13 as claimed: a key whose value is nil or empty produces no variable, and every
\* key with a non-empty value produces exactly one.
C13_Original ==
    InExecute =>
        Len(externalCommand.env)
            = Len(SelectSeq(in.viper, LAMBDA e : e.v # NilValue /\ e.v.s # ""))

\* C13 as amended: only a key whose value is nil produces no variable; every other
\* key, one with the empty string included, produces exactly one entry KEY=value
\* (KEY= for the empty string).
C13_OnlyNilSkipped ==
    InExecute =>
        /\ Len(externalCommand.env) = Len(NonNil(in.viper))
        /\ \A i \in 1..Len(externalCommand.env) :
             externalCommand.env[i].value = NonNil(in.viper)[i].v.s
        /\ \A i \in 1..Len(runs) : runs[i].env = externalCommand.env

C13_Witness ==
    /\ Done /\ InExecute
    /\ in.viper = <<[k |-> <<"a", "-", "b">>, v |-> StrValue("")],
                    [k |-> <<"a", ".", "b">>, v |-> NilValue]>>
    /\ externalCommand.env = <<[name |-> <<"A", "_", "B">>, value |-> ""]>>
    /\ Len(runs) = 1

\* the order setupSandbox takes for a given lock-file override
SetupOrder(lockFile) ==
    IF lockFile # ""
    THEN <<"unshare", "setns", "remount", "mountlock", "mountnss">>
    ELSE <<"unshare", "setns", "remount", "mountnss">>
SetupComplete ==
    /\ Len(setup) = Len(SetupOrder(plan.lockFile))
    /\ \A i \in 1..Len(setup) : setup[i].err = Nil
WorkerRan == \E i \in 1..Len(runs) : runs[i].thread = W

\* C14: the setup steps run in the order unshare, set network namespace, remount /
\* private, lock-file mount (if and only if the override is not empty), nsswitch
\* mount (always); the first step that fails is the last step taken; the operation
\* runs on the worker only after every step has succeeded.
C14_SetupOrder ==
    InXTables =>
        /\ Len(setup) <= Len(SetupOrder(plan.lockFile))
        /\ \A i \in 1..Len(setup) :
             /\ setup[i].step = SetupOrder(plan.lockFile)[i]
             /\ i < Len(setup) => setup[i].err = Nil
        /\ wpc[W] \in {"mark", "f"} \/ WorkerRan => SetupComplete
        /\ WorkerRan /\ plan.lockFile # ""
             => \A i \in 1..Len(runs) :
                  runs[i].thread = W => /\ runs[i].view.lock = plan.lockFile
                                        /\ runs[i].view.nss = DevNull
        /\ WorkerRan /\ plan.lockFile = ""
             => \A i \in 1..Len(runs) :
                  runs[i].thread = W => /\ runs[i].view.lock = ""
                                        /\ runs[i].view.nss = DevNull

C14_Witness ==
    /\ Done /\ WorkerRan
    /\ plan.lockFile # ""
    /\ setup = [i \in 1..5 |-> [step |-> SetupOrder(plan.lockFile)[i], err |-> Nil]]

WorkerStarted == wpc[W] # "unborn"

\* C15: the network-namespace handle is captured on the caller before the worker
\* exists, and it names the namespace the caller is in; an operation that runs in the
\* sandbox runs in that namespace, not in the one the worker's fresh thread started in.
C15_OpRunsInCapturedNetNS ==
    InXTables =>
        /\ WorkerStarted => n # NoNS /\ n = thr[Caller].net
        /\ n = NoNS /\ pc # "idle" => ~WorkerStarted
        /\ \A i \in 1..Len(runs) : runs[i].thread = W => runs[i].view.net = n
        /\ wpc[W] \in {"remount", "mountlock", "mountnss", "mark", "f"}
             => thr[W].net = n

C15_Witness ==
    /\ Done /\ WorkerRan
    /\ n = "podnet" /\ FreshThread.net # n
    /\ runs[1].view.net = "podnet"

BeforeMutation == {"unborn", "lockthread"}
Finished == {"exit", "dead"}

\* C16: every namespace or mount mutation is made on a thread created for the call
\* and pinned before the first mutation; the thread stays pinned for as long as its
\* goroutine runs, serves no later call, and is gone once the goroutine has ended
\* after delivering its result; the caller's thread is never the one mutated.
C16_MutationsOnPinnedFreshWorker ==
    /\ thr[Caller].mnt = HostNS /\ ~thr[Caller].pinned
    /\ \A w \in Workers :
         /\ wpc[w] \notin BeforeMutation \cup {"dead"} => thr[w].alive /\ thr[w].pinned
         /\ wpc[w] = "lockthread" => thr[w] = DeadThread
         /\ wpc[w] = "unborn" => thr[w] = DeadThread
         /\ wpc[w] = "dead" => thr[w] = DeadThread
         /\ w < calls => wpc[w] \in {"unborn"} \cup Finished
         /\ w > calls => wpc[w] = "unborn"
         /\ thr[w].alive /\ thr[w].mnt # HostNS => thr[w].mnt = w /\ thr[w].pinned
    /\ \A m \in Workers :
         mnt[m] # EmptyNS => thr[m].alive /\ thr[m].pinned /\ thr[m].mnt = m

C16_Witness ==
    /\ calls = 2
    /\ wpc[1] = "dead" /\ thr[1] = DeadThread
    /\ wpc[2] = "f" /\ thr[2].pinned /\ thr[2].mnt = 2
    /\ mnt[2].mounts[NsswitchPath] = DevNull

AfterReceive == {"sb_check", "sb_fallback", "xt_log", "done"}

\* C17: a call that starts a worker has exactly one send, by the worker, and exactly
\* one receive, by the caller; the caller is not past its receive before the worker
\* has finished the setup and, if the setup succeeded, the operation.
C17_OneSendOneReceive ==
    /\ sent \in 0..1 /\ received \in 0..1
    /\ Len(chErr) = sent - received
    /\ InXTables =>
         /\ ~WorkerStarted => sent = 0 /\ received = 0
         /\ WorkerStarted => (sent = 1 <=> wpc[W] \in Finished)
         /\ pc = "sb_recv" => received = 0
         /\ WorkerStarted /\ pc \in AfterReceive
              => /\ sent = 1 /\ received = 1
                 /\ wpc[W] \in Finished
                 /\ SetupComplete => WorkerRan

C17_Witness ==
    /\ Done /\ WorkerStarted
    /\ sent = 1 /\ received = 1 /\ chErr = <<>>
    /\ WorkerRan

\* C19: the executed flag is never accessed by both sides at once (the worker writes
\* it only while the caller waits at the receive, the caller writes it before the
\* worker exists and reads it after the worker has sent), and the caller reads true
\* exactly when the worker invoked the operation.
C19_ExecutedIffWorkerRan ==
    InXTables =>
        /\ wpc[W] = "mark" => pc = "sb_recv"
        /\ pc = "sb_go" => ~WorkerStarted
        /\ pc = "sb_check" => /\ wpc[W] \in Finished
                              /\ executed <=> WorkerRan
        /\ pc = "sb_fallback" => ~executed /\ ~WorkerRan

C19_Witness ==
    /\ pc = "sb_check" /\ executed /\ WorkerRan
    /\ sbErr # Nil

WaitAppended == c.args = Append(in.args, WaitFlag)
LockEnvSet == HasEnv(c.env, LockfileEnvName)
LockFileOverride == plan.lockFile # ""
Strategies ==
    (IF WaitAppended THEN 1 ELSE 0) + (IF LockEnvSet THEN 1 ELSE 0)
        + (IF LockFileOverride THEN 1 ELSE 0)

\* C20: of the three lock strategies (--wait=30 appended, XTABLES_LOCKFILE in the
\* child's environment, a lock-file override given to the sandbox) at most one is
\* applied to a command and none when no lock is needed; in CNI mode the arguments
\* are the caller's.
C20_AtMostOneLockStrategy ==
    InXTables /\ plan # NoPlan =>
        /\ Strategies <= 1
        /\ ~NeedLock(in.cmd, r.IptablesVersion) => Strategies = 0 /\ c.args = in.args
        /\ NeedLock(in.cmd, r.IptablesVersion) => Strategies = 1
        /\ r.CNIMode => c.args = in.args
        /\ \A i \in 1..Len(runs) : runs[i].args = c.args /\ runs[i].env = c.env

C20_Witness ==
    /\ Done /\ r.CNIMode /\ LockEnvSet
    /\ ~WaitAppended /\ ~LockFileOverride
    /\ Len(runs) = 1 /\ runs[1].args = in.args /\ in.args = <<WaitFlag>>

\* the hooks that match the requested revision: labelled, and with that very label
\* unless the request is ""
Matching(requested) ==
    {i \in 1..Len(hooks) : hooks[i] # "" /\ (requested = "" \/ hooks[i] = requested)}

\* C18: injectorFromCluster returns a hook only if the hook matches the requested
\* revision (a non-empty request is equal to the hook's istio.io/rev label, an empty
\* request matches any revision), and when no hook matches it returns the error that
\* names the requested revision.
C18_Original ==
    vpc = "done" /\ vret.err # ErrList =>
        /\ vret.hook # NoHook => vret.hook \in Matching(vloop.requested)
        /\ Matching(vloop.requested) = {}
             => vret.hook = NoHook /\ vret.err = ErrNotFound
                                   /\ vret.named = vloop.requested

FellBack == warned # <<>>
\* what a child of the caller sees when nothing of a sandbox is in effect
CallerCleanView == [lock |-> "", nss |-> "", mntns |-> HostNS, net |-> CallerAtStart.net]

\* C21: on the fallback path the operation is run by the caller, after the worker has
\* delivered its result, and never by the worker; whatever part of the setup the
\* worker completed (a new mount namespace, the network namespace, a bind mount),
\* the fallback run sees none of it.
C21_FallbackWithoutPartialSetup ==
    Sandboxed =>
        /\ pc = "sb_fallback"
             => /\ received = 1 /\ wpc[W] \in Finished
                /\ runs = <<>>
                /\ View(Caller) = CallerCleanView
        /\ FellBack
             => /\ ~SetupComplete /\ Len(setup) >= 1
                /\ \A i \in 1..Len(runs) :
                     /\ runs[i].thread = Caller
                     /\ runs[i].view = CallerCleanView

C21_Witness ==
    /\ Done /\ Sandboxed /\ FellBack
    /\ Len(setup) = 5 /\ setup[4] = [step |-> "mountlock", err |-> Nil]
    /\ setup[5].err = ErrMountNss
    /\ wpc[W] = "exit" /\ thr[W].mnt = W
    /\ mnt[W].mounts[XtablesLockPath] = plan.lockFile
    /\ Len(runs) = 1 /\ runs[1].thread = Caller /\ runs[1].view.lock = ""

\* C22: given that every setup call and the operation return, every call of
\* runInSandbox returns to its caller: a worker that is about to send always finds
\* the channel's slot free, and the caller's receive is always followed by the
\* branch after it, whatever the interleaving of caller and workers.
C22_SandboxCallReturns ==
    /\ [](\A w \in Workers : wpc[w] = "send" => Len(chErr) < 1)
    /\ (pc = "sb_recv") ~> (pc = "sb_check")
    /\ (pc = "sb_getns") ~> (pc = "xt_log")

C22_Witness ==
    /\ pc = "xt_log" /\ Sandboxed /\ WorkerStarted
    /\ wpc[W] = "exit" /\ chErr = <<>>
    /\ FellBack /\ Len(runs) = 1 /\ err = Nil

====
